---- MODULE Spec2Model ----
(***************************************************************************)
(* A model of the exp crate: the run scheduler of src/run.rs (directory    *)
(* naming as the per-configuration state machine) and the container        *)
(* Runner of src/docker_runner.rs (collector tasks, shutdown signal,       *)
(* teardown).                                                              *)
(***************************************************************************)
EXTENDS Integers, Sequences, FiniteSets, TLC

(* ------------------------------ bounds -------------------------------- *)

\* longest configuration list an experiment returns
MaxConfigs == 2
\* distinct configuration contents
NumContents == 3
\* scheduler passes (calls of run) over one results directory
MaxPasses == 2
\* stream items and timer ticks the collectors of one Runner receive in all
MaxItems == 1
\* stream items and timer ticks the collectors of a Runner with a single
\* container receive in all
MaxLines == 3
\* the scalar values are 0..MaxScalar
MaxScalar == 1
\* longest vector combinations is called on, at either level of nesting
MaxVecLen == 2

\* the largest bound of an integer range
MaxRange == 7
\* the tasks (threads) the monitored process has at most
MaxTasks == 2
\* the samples ProcessMonitor::run takes at most
MaxSamples == 2
\* the characters a line of a log file has at most
MaxLineLen == 3
\* the lines a log file has at most
MaxFileLines == 2

(* --------------------------- configurations --------------------------- *)

\* A configuration value is identified here by its logical content; two
\* entries of the configuration list with the same content are two objects
\* (list positions) that serialize to the same bytes.
Contents == 1..NumContents

\* ExperimentConfiguration::ser: the canonical (compact JSON) bytes of a value
ser(c) == <<c \div 2, c % 2>>

RECURSIVE Digest(_, _)
Digest(bytes, acc) ==
    IF bytes = <<>> THEN acc
    ELSE Digest(Tail(bytes), acc * 2 + Head(bytes))

\* blake3::hash over a byte sequence, taken to be collision free on the
\* inputs of the model: the digest is a function of the bytes alone
blake3(bytes) == 100 + Digest(bytes, 0)

\* the digest of the serialized bytes of every value
HashOf == [c \in Contents |-> blake3(ser(c))]

\* ExperimentConfiguration::hash / hash_serialized
hash_serialized(c) == HashOf[c]

Hashes == {hash_serialized(c) : c \in Contents}

\* the lists an experiment may return: contents numbered in order of first
\* occurrence (every list over Contents is one of these up to renaming)
RECURSIVE MaxOf(_)
MaxOf(s) == IF s = <<>> THEN 0
            ELSE LET m == MaxOf(Tail(s)) IN IF Head(s) > m THEN Head(s) ELSE m

SeqsUpTo(n) == UNION {[1..m -> Contents] : m \in 0..n}

ConfigLists ==
    {l \in SeqsUpTo(MaxConfigs) :
        \A j \in 1..Len(l) : l[j] <= MaxOf(SubSeq(l, 1, j - 1)) + 1}

(* ----------------------------- file system ---------------------------- *)

\* a directory is the set of its entries; a name that is no directory is Absent
Absent == {"<absent>"}
Files == {"configuration.json", "repeat"}
Exts == {"", "running", "failed"}
Paths == Hashes \X Exts

\* a directory name that does not depend on the configuration
build_config_dir_shared(c) == <<blake3(<<0, 1>>), "">>

\* build_config_dir: <experiment_dir>/<hash>
build_config_dir(c) == <<hash_serialized(c), "">>

\* PathBuf::set_extension on a directory name that holds no dot
set_extension(path, ext) == <<path[1], ext>>

\* Path::exists
exists(f, path) == f[path] # Absent

\* std::fs::create_dir_all: creates the directory, succeeds when it is there
create_dir_all(f, path) ==
    IF f[path] = Absent THEN [f EXCEPT ![path] = {}] ELSE f

\* std::fs::rename of a directory: the source must exist and an existing
\* target must be an empty directory (ENOTEMPTY otherwise)
rename_ok(f, from, to) ==
    /\ f[from] # Absent
    /\ f[to] = Absent \/ f[to] = {}

\* a rename that copies: the source directory is left behind
rename_copy(f, from, to) == [f EXCEPT ![to] = f[from]]

rename(f, from, to) == [f EXCEPT ![to] = f[from], ![from] = Absent]

(* ------------------------------- state -------------------------------- *)

Procs == {1, 2}

VARIABLES
    configurations,  \* what experiment.configurations() returns
    root,            \* the results directory exists
    fs,              \* the directories under the results directory
    envWrites,       \* how often environment.json has been written
    passNo,          \* passes started so far
    last,            \* how the latest ended pass ended
    succeeded,       \* hashes for which pre_run, run and post_run all returned Ok
    proc             \* per scheduler process: the locals of run/run_single

svars == <<configurations, root, fs, envWrites, passNo, last, succeeded, proc>>

\* One Runner of src/docker_runner.rs, the engine it talks to and the
\* collector tasks it spawns.
VARIABLES
    rpc,           \* where the task that owns the Runner is
    containers,    \* Runner.containers
    networks,      \* Runner.networks
    futures,       \* Runner.futures: the spawned collector tasks, in spawn order
    version,       \* the version of the watch channel behind end_tx / end_rx
    senderDropped, \* end_tx has been dropped
    files,         \* per collector task: the records appended to its file
    delivered,     \* stream items and timer ticks handed to collectors so far
    engineNets,    \* the networks the engine holds
    engine,        \* per container name: its state in the engine
    ops,           \* the teardown requests finish has sent to the engine
    idx,           \* finish: the loop index over containers, then networks
    hist           \* history of the engine, not program state

rvars == <<rpc, containers, networks, futures, version, senderDropped,
           files, delivered, engineNets, engine, ops, idx, hist>>

\* One call of Combinations::combinations (src/combinations.rs).
VARIABLES
    value,         \* the value combinations is called on
    combined       \* whether the call has returned, and what it returned

cvars == <<value, combined>>

\* One ProcessMonitor (src/monitor.rs) and the process it monitors.
VARIABLES
    monitor,       \* where ProcessMonitor::run is, and the samples it took
    process,       \* the monitored process as the system holds it
    writer         \* the csv writer: the records serialized, how many flushed

mvars == <<monitor, process, writer>>

\* One call of Logs::from_file (src/docker_runner.rs).
VARIABLES
    logfile,       \* the path given and the lines of the file behind it
    logs           \* whether the call has ended, and with what

lvars == <<logfile, logs>>

vars == <<svars, rvars, cvars, mvars, lvars>>

NoReport == [none |-> TRUE]

IdleProc == [
    pc |-> "idle",
    i |-> 1,
    seen_configuration_hashes |-> {},
    configurations_to_run |-> <<>>,
    duplicate_configurations |-> 0,
    skipped_configurations |-> 0,
    k |-> 1,
    outcome |-> "None",
    result |-> "None",
    endHash |-> 0,          \* the hash in execution when the pass ended early
    report |-> NoReport,
    \* history of the pass, not program state:
    executed |-> <<>>,      \* list positions run_configuration was called for
    cbFailed |-> {},        \* <<list position, callback>> that returned an error
    fault |-> FALSE,        \* an injected I/O or serialization error happened
    startFs |-> [x \in Paths |-> Absent],
    prev |-> [result |-> "None", clean |-> FALSE, hash |-> 0]
]

SchedInit(lists) ==
    /\ configurations \in lists
    /\ root = FALSE
    /\ fs = [x \in Paths |-> Absent]
    /\ envWrites = 0
    /\ passNo = 0
    /\ last = [result |-> "None", clean |-> FALSE, hash |-> 0]
    /\ succeeded = {}
    /\ proc = [p \in Procs |-> IdleProc]

ContainerNameList == <<"c1", "c2">>
ContainerNames == {ContainerNameList[j] : j \in DOMAIN ContainerNameList}
NetworkNames == {"n1"}
NoNetwork == "<none>"

\* a Runner that has not been constructed, with an engine that holds the
\* networks in nets
RunnerInit(nets) ==
    /\ rpc = "start"
    /\ containers = <<>>
    /\ networks = <<>>
    /\ futures = <<>>
    /\ version = 0
    /\ senderDropped = FALSE
    /\ files = <<>>
    /\ delivered = 0
    /\ engineNets = nets
    /\ engine = [c \in ContainerNames |-> "none"]
    /\ ops = <<>>
    /\ idx = 1
    \* the networks the engine held before the Runner, and those a
    \* create_network call of the Runner has made
    /\ hist = [preexisting |-> nets, created |-> {}]

RunnerIdle == RunnerInit({})

(* ---------------------------- combinations ---------------------------- *)

\* the values of the scalar types (usize ... String: lines 31-51), of
\* Vec<scalar> and of Vec<Vec<scalar>>
Scalars == {[tag |-> "scalar", v |-> n] : n \in 0..MaxScalar}

VecsOf(elements) ==
    {[tag |-> "vec", items |-> s] :
        s \in UNION {[1..m -> elements] : m \in 0..MaxVecLen}}

Values == Scalars \cup VecsOf(Scalars) \cup VecsOf(VecsOf(Scalars))

\* an iterator that leaves out the items that were yielded before
chain_unique(a, b) ==
    a \o SelectSeq(b, LAMBDA v : \A k \in DOMAIN a : a[k] # v)

\* flat_map(..).collect(): the items of an inner iterator follow the items
\* of the inner iterators before it
chain(a, b) == a \o b

\* the integer ranges start..end and start..=end; exhausted is the flag a
\* RangeInclusive sets when it has yielded its upper bound
Ranges ==
    [tag : {"range", "range_inclusive"}, start : 0..MaxRange, end : 0..MaxRange,
     exhausted : {FALSE}]

\* an iterator over start..end that yields the upper bound too
RECURSIVE collect_range_closed(_)
collect_range_closed(r) ==
    IF r.start <= r.end
    THEN <<r.start>> \o collect_range_closed([r EXCEPT !.start = @ + 1])
    ELSE <<>>

\* Range::into_iter().collect(): next() yields start and steps it forward
\* while start < end
RECURSIVE collect_range(_)
collect_range(r) ==
    IF r.start < r.end
    THEN <<r.start>> \o collect_range([r EXCEPT !.start = @ + 1])
    ELSE <<>>

\* RangeInclusive::into_iter().collect(): next() yields nothing when the
\* range is exhausted or start > end; it yields start and steps it forward
\* while start < end, and yields start = end once, setting exhausted
RECURSIVE collect_range_inclusive(_)
collect_range_inclusive(r) ==
    IF r.exhausted \/ r.start > r.end THEN <<>>
    ELSE IF r.start < r.end
    THEN <<r.start>> \o collect_range_inclusive([r EXCEPT !.start = @ + 1])
    ELSE <<r.start>> \o collect_range_inclusive([r EXCEPT !.exhausted = TRUE])

\* Combinations::combinations: vec![*self] for a scalar (lines 9-29),
\* self.clone().into_iter().collect() for a Range (53-62) and a
\* RangeInclusive (64-73): the iterator consumes the clone,
\* self.iter().flat_map(|t| t.combinations()).collect() for a Vec (75-80)
RECURSIVE combinations(_)
combinations(x) ==
    IF x.tag = "scalar" THEN <<x.v>>
    ELSE IF x.tag = "range" THEN collect_range(x)
    ELSE IF x.tag = "range_inclusive" THEN collect_range_inclusive(x)
    ELSE IF x.items = <<>> THEN <<>>
    ELSE chain(combinations(Head(x.items)),
               combinations([x EXCEPT !.items = Tail(@)]))

NotCombined == [done |-> FALSE, list |-> <<>>]

\* no call of combinations
CombinationsIdle ==
    /\ value = [tag |-> "scalar", v |-> 0]
    /\ combined = NotCombined

(* ------------------------------- monitor ------------------------------ *)

\* the pid given to ProcessMonitor::new
MonitoredPid == 0

\* the pids the tasks of the monitored process can have
TaskPids == 1..MaxTasks

NoRecords == [records |-> <<>>, flushed |-> 0]

\* no ProcessMonitor
MonitorIdle ==
    /\ monitor = [pc |-> "none", samples |-> 0]
    /\ process = [alive |-> FALSE, tasks |-> {}]
    /\ writer = NoRecords

(* --------------------------------- logs -------------------------------- *)

NotParsed == [status |-> "None"]

\* no call of Logs::from_file
LogsIdle ==
    /\ logfile = [path |-> <<>>, opens |-> FALSE, lines |-> <<>>]
    /\ logs = NotParsed

(* ------------------------------ helpers ------------------------------- *)

Set(p, upd) == proc' = [proc EXCEPT ![p] = upd]

\* the pass is clean so far: no callback failed and no error was injected
Clean(s) == s.cbFailed = {} /\ ~s.fault

\* the hash being executed by a process that is inside the execution loop
CurrentConfig(s) == configurations[s.configurations_to_run[s.k]]

\* run or run_single returns res (or the process dies)
End(p, s, res, h) ==
    /\ Set(p, [s EXCEPT !.pc = "idle", !.result = res, !.endHash = h, !.i = 1, !.k = 1,
                        !.seen_configuration_hashes = {}, !.outcome = "None"])
    /\ last' = [result |-> res, clean |-> Clean(s) /\ res = "Ok", hash |-> h]

(* ------------------------------ actions ------------------------------- *)

\* run: create_experiment_dir, then run_single
Run(p) ==
    /\ proc[p].pc = "idle"
    /\ passNo < MaxPasses
    /\ passNo' = passNo + 1
    /\ \E ok \in BOOLEAN :
        LET s == [IdleProc EXCEPT !.startFs = fs, !.prev = last, !.fault = ~ok]
        IN IF ok
           THEN /\ root' = TRUE
                /\ Set(p, [s EXCEPT !.pc = "env"])
                /\ UNCHANGED last
           ELSE /\ UNCHANGED root
                /\ End(p, s, "Err", 0)
    /\ UNCHANGED <<configurations, fs, envWrites, succeeded>>
    /\ UNCHANGED <<rvars, cvars, mvars, lvars>>

\* an error that is dropped: control goes on as after Ok
unwrap_ignored(ok, next) == next

\* Result::unwrap (run.rs:135-151): control goes on after Ok, an error panics
unwrap(ok, next) == IF ok THEN next ELSE "panic"

\* collect_environment_data: writes environment.json, panics on any failure
CollectEnvironment(p) ==
    /\ proc[p].pc = "env"
    /\ \E ok \in BOOLEAN :
        LET to == unwrap(ok /\ root, "enum") IN
        /\ envWrites' = IF ok /\ root THEN envWrites + 1 ELSE envWrites
        /\ IF to = "panic"
           THEN End(p, [proc[p] EXCEPT !.fault = TRUE], "Panic", 0)
           ELSE /\ Set(p, [proc[p] EXCEPT !.pc = to])
                /\ UNCHANGED last
    /\ UNCHANGED <<configurations, root, fs, passNo, succeeded>>
    /\ UNCHANGED <<rvars, cvars, mvars, lvars>>

\* no deduplication: every configuration counts as new
is_duplicate_never(seen, h) == FALSE

\* run_single, the test of line 56: HashSet::insert returns false
is_duplicate(seen, h) == h \in seen

\* the skip test looking at <hash>.running instead of <hash>
is_completed_running(f, c) == exists(f, set_extension(build_config_dir(c), "running"))

\* the skip test taking a running marker for completed work
is_completed_or_running(f, c) ==
    \/ exists(f, build_config_dir(c))
    \/ exists(f, set_extension(build_config_dir(c), "running"))

\* the skip test treating <hash>.failed as terminal too
is_completed_or_failed(f, c) ==
    \/ exists(f, build_config_dir(c))
    \/ exists(f, set_extension(build_config_dir(c), "failed"))

\* no skip test at all
is_completed_never(f, c) == FALSE

\* run_single, the test of lines 60-61: the configuration's directory exists
is_completed(f, c) == exists(f, build_config_dir(c))

\* an enumeration that looks for the directory first
classify_skip_first(seen, f, c, h) ==
    IF is_completed(f, c) THEN "skipped"
    ELSE IF is_duplicate(seen, h) THEN "duplicate"
    ELSE "remaining"

\* run_single, lines 56-66: the hash is looked up in (and added to) the set
\* of hashes seen; only a hash not seen before is tested for its directory
classify(seen, f, c, h) ==
    IF is_duplicate(seen, h) THEN "duplicate"
    ELSE IF is_completed(f, c) THEN "skipped"
    ELSE "remaining"

\* run_single, one iteration of the enumeration loop
Enumerate(p) ==
    LET s == proc[p] IN
    /\ s.pc = "enum"
    /\ s.i <= Len(configurations)
    /\ \E ok \in BOOLEAN :
        LET c == configurations[s.i]
            h == hash_serialized(c)
        IN IF ~ok
           THEN End(p, [s EXCEPT !.fault = TRUE], "Err", 0)
           ELSE /\ UNCHANGED last
                /\ IF classify(s.seen_configuration_hashes, fs, c, h) = "duplicate"
                   THEN Set(p, [s EXCEPT !.i = @ + 1,
                                         !.duplicate_configurations = @ + 1])
                   ELSE IF classify(s.seen_configuration_hashes, fs, c, h) = "skipped"
                   THEN Set(p, [s EXCEPT !.i = @ + 1,
                                         !.seen_configuration_hashes = @ \cup {h},
                                         !.skipped_configurations = @ + 1])
                   ELSE Set(p, [s EXCEPT !.i = @ + 1,
                                         !.seen_configuration_hashes = @ \cup {h},
                                         !.configurations_to_run = Append(@, s.i)])
    /\ UNCHANGED <<configurations, root, fs, envWrites, passNo, succeeded>>
    /\ UNCHANGED <<rvars, cvars, mvars, lvars>>

\* run_single, lines 69-74: the summary logged after the enumeration
summary(s) == [skipped |-> s.skipped_configurations,
               duplicates |-> s.duplicate_configurations,
               remaining |-> Len(s.configurations_to_run)]

Report(p) ==
    LET s == proc[p] IN
    /\ s.pc = "enum"
    /\ s.i > Len(configurations)
    /\ Set(p, [s EXCEPT !.pc = "loop", !.report = summary(s)])
    /\ UNCHANGED <<configurations, root, fs, envWrites, passNo, last, succeeded>>
    /\ UNCHANGED <<rvars, cvars, mvars, lvars>>

\* an error that is dropped by the loop: control goes on as after Ok
propagate_ignored(ok, next) == next

\* the ? of run_single, lines 83, 94 and 100: control goes on after Ok, an
\* error is returned to the caller
propagate(ok, next) == IF ok THEN next ELSE "return"

\* run_single, lines 76-90: the <hash>.running directory of the next
\* configuration of the work list
CreateRunningDir(p) ==
    LET s == proc[p] IN
    /\ s.pc = "loop"
    /\ s.k <= Len(s.configurations_to_run)
    /\ \E ok \in BOOLEAN :
        LET running_dir == set_extension(build_config_dir(CurrentConfig(s)), "running")
            to == propagate(ok /\ root, "write")
        IN /\ fs' = IF ok /\ root THEN create_dir_all(fs, running_dir) ELSE fs
           /\ IF to = "return"
              THEN End(p, [s EXCEPT !.fault = TRUE], "Err", 0)
              ELSE /\ Set(p, [s EXCEPT !.pc = to,
                                       !.executed = Append(@, s.configurations_to_run[s.k])])
                   /\ UNCHANGED last
    /\ UNCHANGED <<configurations, root, envWrites, passNo, succeeded>>
    /\ UNCHANGED <<rvars, cvars, mvars, lvars>>

\* run_single, line 104: the work list is exhausted
Finish(p) ==
    LET s == proc[p] IN
    /\ s.pc = "loop"
    /\ s.k > Len(s.configurations_to_run)
    /\ End(p, s, "Ok", 0)
    /\ UNCHANGED <<configurations, root, fs, envWrites, passNo, succeeded>>
    /\ UNCHANGED <<rvars, cvars, mvars, lvars>>

\* an error of a callback that is recorded and then ignored
Failed_continue(s, callback) ==
    [s EXCEPT !.pc = IF callback = "write" THEN "pre"
                     ELSE IF callback = "pre_run" THEN "run"
                     ELSE IF callback = "run" THEN "post" ELSE "commit",
              !.outcome = IF callback = "post_run" THEN "Ok" ELSE @,
              !.cbFailed = IF callback = "write" THEN @
                           ELSE @ \cup {<<s.configurations_to_run[s.k], callback>>},
              !.fault = @ \/ callback = "write"]

\* a callback or a write of run_configuration returned an error
Failed(s, callback) ==
    [s EXCEPT !.pc = "commit", !.outcome = "Err",
              !.cbFailed = IF callback = "write" THEN @
                           ELSE @ \cup {<<s.configurations_to_run[s.k], callback>>},
              !.fault = @ \/ callback = "write"]

\* run_configuration, lines 112-113: configuration.json, pretty printed
WriteConfiguration(p) ==
    LET s == proc[p]
        dir == set_extension(build_config_dir(CurrentConfig(s)), "running")
    IN
    /\ s.pc = "write"
    /\ \E ok \in BOOLEAN :
        IF ok /\ exists(fs, dir)
        THEN /\ fs' = [fs EXCEPT ![dir] = @ \cup {"configuration.json"}]
             /\ Set(p, [s EXCEPT !.pc = "pre"])
        ELSE /\ UNCHANGED fs
             /\ Set(p, Failed(s, "write"))
    /\ UNCHANGED <<configurations, root, envWrites, passNo, last, succeeded>>
    /\ UNCHANGED <<rvars, cvars, mvars, lvars>>

\* run_configuration, line 114
PreRun(p) ==
    LET s == proc[p] IN
    /\ s.pc = "pre"
    /\ \E ok \in BOOLEAN :
        Set(p, IF ok THEN [s EXCEPT !.pc = "run"] ELSE Failed(s, "pre_run"))
    /\ UNCHANGED <<configurations, root, fs, envWrites, passNo, last, succeeded>>
    /\ UNCHANGED <<rvars, cvars, mvars, lvars>>

\* run_configuration, line 115: the experiment's run callback, which
\* populates the directory it is given (a sub-directory per repeat) and
\* then returns Ok or an error
RunCallback(p) ==
    LET s == proc[p]
        dir == set_extension(build_config_dir(CurrentConfig(s)), "running")
    IN
    /\ s.pc = "run"
    /\ \E ok \in BOOLEAN :
        /\ fs' = IF exists(fs, dir)
                 THEN [fs EXCEPT ![dir] = @ \cup {"repeat"}]
                 ELSE fs
        /\ Set(p, IF ok THEN [s EXCEPT !.pc = "post"] ELSE Failed(s, "run"))
    /\ UNCHANGED <<configurations, root, envWrites, passNo, last, succeeded>>
    /\ UNCHANGED <<rvars, cvars, mvars, lvars>>

\* run_configuration, lines 116-117
PostRun(p) ==
    LET s == proc[p] IN
    /\ s.pc = "post"
    /\ \E ok \in BOOLEAN :
        /\ Set(p, IF ok THEN [s EXCEPT !.pc = "commit", !.outcome = "Ok"]
                        ELSE Failed(s, "post_run"))
        /\ succeeded' = IF ok THEN succeeded \cup {hash_serialized(CurrentConfig(s))}
                             ELSE succeeded
    /\ UNCHANGED <<configurations, root, fs, envWrites, passNo, last>>
    /\ UNCHANGED <<rvars, cvars, mvars, lvars>>

\* the commit without its error branch
commit_dir_always_completed(c, outcome) == build_config_dir(c)

\* run_single, lines 91-101: the directory the running directory is renamed to
commit_dir(c, outcome) ==
    IF outcome = "Ok"
    THEN build_config_dir(c)
    ELSE set_extension(build_config_dir(c), "failed")

\* run_single, lines 91-102: the commit rename
Commit(p) ==
    LET s == proc[p]
        c == CurrentConfig(s)
        running_dir == set_extension(build_config_dir(c), "running")
        target == commit_dir(c, s.outcome)
    IN
    /\ s.pc = "commit"
    /\ \E ok \in BOOLEAN :
        LET renamed == ok /\ rename_ok(fs, running_dir, target)
            to == propagate(renamed, "loop")
        IN /\ fs' = IF renamed THEN rename(fs, running_dir, target) ELSE fs
           /\ IF to = "return"
              THEN End(p, [s EXCEPT !.fault = @ \/ ~ok], "Err", hash_serialized(c))
              ELSE /\ Set(p, [s EXCEPT !.pc = to, !.k = @ + 1, !.outcome = "None"])
                   /\ UNCHANGED last
    /\ UNCHANGED <<configurations, root, envWrites, passNo, succeeded>>
    /\ UNCHANGED <<rvars, cvars, mvars, lvars>>

InExecution(s) == s.pc \in {"write", "pre", "run", "post", "commit"}

\* the scheduler process stops (is killed, loses power) at any point of a pass
Crash(p) ==
    LET s == proc[p] IN
    /\ s.pc # "idle"
    /\ End(p, s, "Crash", IF InExecution(s) THEN hash_serialized(CurrentConfig(s)) ELSE 0)
    /\ UNCHANGED <<configurations, root, fs, envWrites, passNo, succeeded>>
    /\ UNCHANGED <<rvars, cvars, mvars, lvars>>

Step(p) ==
    \/ Run(p)
    \/ CollectEnvironment(p)
    \/ Enumerate(p)
    \/ Report(p)
    \/ CreateRunningDir(p)
    \/ WriteConfiguration(p)
    \/ PreRun(p)
    \/ RunCallback(p)
    \/ PostRun(p)
    \/ Commit(p)
    \/ Finish(p)
    \/ Crash(p)

\* passes of one scheduler process, run one after another
Next == Step(1)

Init == SchedInit(ConfigLists) /\ RunnerIdle /\ CombinationsIdle /\ MonitorIdle /\ LogsIdle

Spec == Init /\ [][Next]_vars

\* the scenario of three distinct configurations
ScenarioConfigs == <<1, 2, 3>>

ScenarioInit == SchedInit({ScenarioConfigs}) /\ RunnerIdle /\ CombinationsIdle /\ MonitorIdle /\ LogsIdle

ScenarioSpec == ScenarioInit /\ [][Next]_vars

\* two scheduler processes over one results directory, each running the
\* same experiment; nothing orders their steps
\* (a pass for each of them)
ConcurrentNext ==
    \E p \in Procs :
        /\ proc[p].pc = "idle" => passNo < Cardinality(Procs)
        /\ Step(p)

\* the experiment the two processes run: two distinct configurations
ConcurrentConfigs == <<1, 2>>

ConcurrentInit ==
    SchedInit({ConcurrentConfigs}) /\ RunnerIdle /\ CombinationsIdle /\ MonitorIdle /\ LogsIdle

ConcurrentSpec == ConcurrentInit /\ [][ConcurrentNext]_vars

(* ------------------------------- Runner -------------------------------- *)

\* the names of the containers added and the first name not yet used: names
\* are interchangeable, so a new name is taken in the order of the list
NamesToTry ==
    {ContainerNameList[j] :
        j \in {k \in DOMAIN ContainerNameList : k <= Len(containers) + 1}}

ContainerConfigs ==
    [name : NamesToTry, network : NetworkNames \cup {NoNetwork}]

\* after an expect/unwrap of the caller of the Runner has failed: the panic
\* is not caught anywhere, the program ends and its tasks with it
Alive == rpc # "panicked"

\* Runner::new, lines 41-67
New ==
    /\ rpc = "start"
    /\ \E ok \in BOOLEAN : rpc' = IF ok THEN "ready" ELSE "panicked"
    /\ UNCHANGED <<senderDropped, containers, networks, futures, version, files,
                   delivered, engineNets, engine, ops, idx>>
    /\ UNCHANGED <<svars, cvars, mvars, lvars, hist>>

\* a lookup that always finds the network
net_count_one(nets, name) == 1

\* a lookup that never finds the network
net_count_zero(nets, name) == 0

\* add_container, lines 82-92: the networks the engine lists under that name
net_count(nets, name) == Cardinality({n \in nets : n = name})

\* a spawn that starts a log collector whatever was asked for
collector_logs(kind, name) ==
    [kind |-> "logs", container |-> name, st |-> "spawned", seen |-> version,
     ended |-> FALSE]

\* add_container, lines 139-140, 176-177, 212-213: a task spawned with a
\* clone of end_rx; the clone has seen what end_rx has seen, the initial value
collector(kind, name) ==
    [kind |-> kind, container |-> name, st |-> "spawned", seen |-> version,
     ended |-> FALSE]

\* add_container runs its engine calls in this order; each is followed by an
\* expect, so the call that fails is where add_container panics
Stage == [config |-> 1, network |-> 2, create |-> 3, start |-> 4, none |-> 5]

\* add_container, lines 69-252. The calls it awaits touch nothing a running
\* collector reads, so the whole of it is one step:
\*   70-77   directories and the container's configuration file
\*   79-113  the network is created when the engine lists none of that name,
\*           and only then is it tracked
\*   115-130 pull, create_container (the engine refuses a name it already
\*           holds), containers.push
\*   132-135 start_container
\*   137-251 the three collector tasks
\* config is the ContainerConfig given, failure the call that fails.
AddContainerWith(config, failure) ==
    /\ rpc = "ready"
    /\ LET past(stage) == Stage[failure] > Stage[stage]
           provision == /\ config.network # NoNetwork
                        /\ net_count(engineNets, config.network) = 0
       IN
       /\ failure = "network" => config.network # NoNetwork
       /\ engine[config.name] # "none" => ~past("create")
       /\ engineNets' = IF past("network") /\ provision
                        THEN engineNets \cup {config.network} ELSE engineNets
       /\ networks' = IF past("network") /\ provision
                      THEN Append(networks, config.network) ELSE networks
       /\ containers' = IF past("create")
                        THEN Append(containers, config.name) ELSE containers
       /\ engine' = IF past("start") THEN [engine EXCEPT ![config.name] = "running"]
                    ELSE IF past("create") THEN [engine EXCEPT ![config.name] = "created"]
                    ELSE engine
       /\ futures' = IF past("start")
                     THEN futures \o <<collector("logs", config.name),
                                        collector("stats", config.name),
                                        collector("top", config.name)>>
                     ELSE futures
       /\ files' = IF past("start") THEN files \o <<<<>>, <<>>, <<>>>> ELSE files
       /\ rpc' = IF past("start") THEN "ready" ELSE "panicked"
       /\ hist' = IF past("network") /\ provision
                  THEN [hist EXCEPT !.created = @ \cup {config.network}] ELSE hist
    /\ UNCHANGED <<version, senderDropped, delivered, ops, idx>>
    /\ UNCHANGED <<svars, cvars, mvars, lvars>>

AddContainer ==
    \E config \in ContainerConfigs, failure \in DOMAIN Stage :
        AddContainerWith(config, failure)

\* finish, lines 255-258: end_tx.send(())
SendShutdown ==
    /\ rpc = "ready"
    /\ rpc' = "join"
    /\ version' = version + 1
    /\ UNCHANGED <<containers, networks, futures, senderDropped, files,
                   delivered, engineNets, engine, ops, idx>>
    /\ UNCHANGED <<svars, cvars, mvars, lvars, hist>>

\* a JoinHandle that is ready only when its task has returned
Terminated_returned(task) == task.st = "done"

\* a JoinHandle is ready when its task has ended: Ok when it returned, a
\* JoinError when it panicked
Terminated(task) == task.st \in {"done", "panicked"}

\* join_all without the wait
joined_none(tasks) == TRUE

\* join_all returning with the first task that ends
joined_any(tasks) == tasks = <<>> \/ \E j \in DOMAIN tasks : Terminated(tasks[j])

\* finish, line 259: join_all(self.futures) is ready when every task has
\* ended, by returning or by panicking
joined(tasks) == \A j \in DOMAIN tasks : Terminated(tasks[j])

\* finish: what comes after the container at position j of the loop
AfterContainer(j) ==
    IF j <= Len(containers) THEN "stop"
    ELSE IF networks # <<>> THEN "nets" ELSE "returned"

\* finish, line 259
JoinAll ==
    /\ rpc = "join"
    /\ joined(futures)
    /\ rpc' = AfterContainer(1)
    /\ idx' = 1
    /\ senderDropped' = (AfterContainer(1) = "returned")
    /\ UNCHANGED <<containers, networks, futures, version, files,
                   delivered, engineNets, engine, ops>>
    /\ UNCHANGED <<svars, cvars, mvars, lvars, hist>>

\* an engine error that is unwrapped: the task that owns the Runner panics
warn_abort(next) == "panicked"

\* finish, lines 270-272, 283-285, 290-292: an engine error is logged with
\* warn! and finish goes on to what comes next
warn(next) == next

\* a loop that goes through the list from its end
next_of_reversed(list, j) == list[Len(list) + 1 - j]

\* finish, lines 260 and 288: the element the j-th iteration of a for loop
\* over a Vec is given
next_of(list, j) == list[j]

\* finish, lines 261-272: stop_container with a grace period; an error is
\* logged
StopContainer ==
    /\ rpc = "stop"
    /\ \E ok \in BOOLEAN :
        /\ engine' = IF ok THEN [engine EXCEPT ![next_of(containers, idx)] = "stopped"]
                     ELSE engine
        /\ rpc' = IF ok THEN "remove" ELSE warn("remove")
    /\ ops' = Append(ops, <<"stop", next_of(containers, idx)>>)
    /\ UNCHANGED <<containers, networks, futures, version, senderDropped,
                   files, delivered, engineNets, idx>>
    /\ UNCHANGED <<svars, cvars, mvars, lvars, hist>>

\* finish, lines 273-286: remove_container, forced; an error is logged
RemoveContainer ==
    /\ rpc = "remove"
    /\ \E ok \in BOOLEAN :
        /\ engine' = IF ok THEN [engine EXCEPT ![next_of(containers, idx)] = "none"]
                     ELSE engine
        /\ rpc' = IF ok THEN AfterContainer(idx + 1) ELSE warn(AfterContainer(idx + 1))
    /\ ops' = Append(ops, <<"remove", next_of(containers, idx)>>)
    /\ idx' = IF AfterContainer(idx + 1) = "stop" THEN idx + 1 ELSE 1
    /\ senderDropped' = (AfterContainer(idx + 1) = "returned")
    /\ UNCHANGED <<containers, networks, futures, version, files,
                   delivered, engineNets>>
    /\ UNCHANGED <<svars, cvars, mvars, lvars, hist>>

\* finish, lines 288-293: remove_network for the tracked networks; an error
\* is logged
RemoveNetwork ==
    /\ rpc = "nets"
    /\ \E ok \in BOOLEAN :
        /\ engineNets' = IF ok THEN engineNets \ {next_of(networks, idx)}
                         ELSE engineNets
        /\ LET next == IF idx < Len(networks) THEN "nets" ELSE "returned"
           IN rpc' = IF ok THEN next ELSE warn(next)
    /\ ops' = Append(ops, <<"remove_network", next_of(networks, idx)>>)
    /\ idx' = IF idx < Len(networks) THEN idx + 1 ELSE 1
    /\ senderDropped' = (idx >= Len(networks))
    /\ UNCHANGED <<containers, networks, futures, version, files,
                   delivered, engine>>
    /\ UNCHANGED <<svars, cvars, mvars, lvars, hist>>

(* ------------------------------ collectors ----------------------------- *)

SetTask(t, task) == futures' = [futures EXCEPT ![t] = task]

\* the first poll of a collector task: its stream, its output file, its writer
CollectorStart(t) ==
    /\ Alive
    /\ futures[t].st = "spawned"
    /\ \E ok \in BOOLEAN :
        SetTask(t, [futures[t] EXCEPT !.st = IF ok THEN "waiting" ELSE "panicked"])
    /\ UNCHANGED <<rpc, containers, networks, version, senderDropped,
                   files, delivered, engineNets, engine, ops, idx>>
    /\ UNCHANGED <<svars, cvars, mvars, lvars, hist>>

\* a wait that is always ready
changed_always(task) == TRUE

\* a wait that is never ready
changed_never(task) == FALSE

\* watch::Receiver::changed is ready: a version the receiver has not seen,
\* or the sender is gone
changed(task) == version # task.seen \/ senderDropped

\* the select! branch of end_rx_clone.changed(): leave the loop, flush
CollectorShutdown(t) ==
    /\ Alive
    /\ futures[t].st = "waiting"
    /\ changed(futures[t])
    /\ \E ok \in BOOLEAN :
        SetTask(t, [futures[t] EXCEPT
                        !.st = IF ok \/ futures[t].kind = "logs" THEN "done" ELSE "panicked",
                        !.ended = FALSE])
    /\ UNCHANGED <<rpc, containers, networks, version, senderDropped,
                   files, delivered, engineNets, engine, ops, idx>>
    /\ UNCHANGED <<svars, cvars, mvars, lvars, hist>>

\* an error item that ends the collector
on_item_err_ends(kind, item) ==
    IF item = "err" \/ kind = "stats" THEN "panic" ELSE "write"

\* what a collector does with an item of its stream (a tick, for top):
\* "write" appends a record, "skip" logs a warning, "panic" ends the task.
\* Stats::from_bollard (lines 513-722) runs into todo!() for every sample.
on_item(kind, item) ==
    IF item = "err" THEN "skip"
    ELSE IF kind = "stats" THEN "panic"
    ELSE "write"

\* a write that puts the record in front of the file's content
write_front(file, record) == <<record>> \o file

\* write! on the log file, Writer::serialize / write_record on a csv file:
\* the record goes to the end of the file
write(file, record) == Append(file, record)

\* the select! branch of the stream (logs.next(), stats.next()) or of the
\* timer (interval.tick(), then top_processes); select! polls its branches
\* in random order, so the branch can be taken when changed() is ready too
\* The item is Ok or an error of the source; written tells whether the write
\* of the record succeeds (the write is unwrapped).
HandleItem(t, supply, item, written) ==
    LET task == futures[t]
        do == on_item(task.kind, item)
    IN
    /\ Alive
    /\ task.st = "waiting"
    /\ ~task.ended
    /\ delivered < supply
    /\ delivered' = delivered + 1
    /\ IF do = "skip"
       THEN UNCHANGED <<futures, files>>
       ELSE IF do = "write" /\ written
       THEN /\ files' = [files EXCEPT ![t] = write(@, delivered + 1)]
            /\ UNCHANGED futures
       ELSE /\ SetTask(t, [task EXCEPT !.st = "panicked", !.ended = FALSE])
            /\ UNCHANGED files
    /\ UNCHANGED <<rpc, containers, networks, version, senderDropped,
                   engineNets, engine, ops, idx>>
    /\ UNCHANGED <<svars, cvars, mvars, lvars, hist>>

CollectorItem(t, supply) ==
    \E item \in {"ok", "err"}, written \in BOOLEAN :
        HandleItem(t, supply, item, written)

\* the log or stats stream is exhausted: next() yields None, which disables
\* that select! branch; the task goes on waiting for changed()
CollectorStreamEnd(t) ==
    LET task == futures[t] IN
    /\ Alive
    /\ task.st = "waiting"
    /\ task.kind \in {"logs", "stats"}
    /\ ~task.ended
    /\ SetTask(t, [task EXCEPT !.ended = TRUE])
    /\ UNCHANGED <<rpc, containers, networks, version, senderDropped,
                   files, delivered, engineNets, engine, ops, idx>>
    /\ UNCHANGED <<svars, cvars, mvars, lvars, hist>>

RunnerNext ==
    \/ New
    \/ AddContainer
    \/ SendShutdown
    \/ JoinAll
    \/ StopContainer
    \/ RemoveContainer
    \/ RemoveNetwork
    \/ \E t \in DOMAIN futures : CollectorStart(t)
    \/ \E t \in DOMAIN futures : CollectorShutdown(t)
    \/ \E t \in DOMAIN futures : CollectorItem(t, MaxItems)
    \/ \E t \in DOMAIN futures : CollectorStreamEnd(t)

\* one Runner against an engine that may hold some of the networks already
RunnerSpecInit ==
    /\ SchedInit({<<>>})
    /\ \E nets \in SUBSET NetworkNames : RunnerInit(nets)
    /\ CombinationsIdle
    /\ MonitorIdle
    /\ LogsIdle

RunnerSpec == RunnerSpecInit /\ [][RunnerNext]_vars

\* fair scheduling: a collector task that can run is run (its first poll,
\* and its wake-up by the watch channel), and the engine answers the calls
\* finish awaits
RunnerFairness ==
    /\ WF_vars(\E t \in DOMAIN futures : CollectorStart(t))
    /\ WF_vars(\E t \in DOMAIN futures : CollectorShutdown(t))
    /\ WF_vars(JoinAll)
    /\ WF_vars(StopContainer)
    /\ WF_vars(RemoveContainer)
    /\ WF_vars(RemoveNetwork)

FairRunnerSpec == RunnerSpec /\ RunnerFairness

\* the first add_container call of a Runner
AddFirstContainer == containers = <<>> /\ AddContainer

\* a Runner that is given one container, and its collectors
CollectorNext ==
    \/ New
    \/ AddFirstContainer
    \/ SendShutdown
    \/ JoinAll
    \/ StopContainer
    \/ RemoveContainer
    \/ RemoveNetwork
    \/ \E t \in DOMAIN futures : CollectorStart(t)
    \/ \E t \in DOMAIN futures : CollectorShutdown(t)
    \/ \E t \in DOMAIN futures : CollectorItem(t, MaxLines)
    \/ \E t \in DOMAIN futures : CollectorStreamEnd(t)

CollectorSpec == RunnerSpecInit /\ [][CollectorNext]_vars

\* add_container for a container on the network n1
AddOnNetwork ==
    \E config \in ContainerConfigs, failure \in DOMAIN Stage :
        /\ config.network = "n1"
        /\ AddContainerWith(config, failure)

\* a Runner all of whose containers are on the network n1
NetworkNext ==
    \/ New
    \/ AddOnNetwork
    \/ SendShutdown
    \/ JoinAll
    \/ StopContainer
    \/ RemoveContainer
    \/ RemoveNetwork
    \/ \E t \in DOMAIN futures : CollectorStart(t)
    \/ \E t \in DOMAIN futures : CollectorShutdown(t)
    \/ \E t \in DOMAIN futures : CollectorItem(t, MaxItems)
    \/ \E t \in DOMAIN futures : CollectorStreamEnd(t)

NetworkSpec == RunnerSpecInit /\ [][NetworkNext]_vars

(* ------------------------- combinations: steps ------------------------- *)

\* the call val.combinations()
Combine ==
    /\ ~combined.done
    /\ combined' = [done |-> TRUE, list |-> combinations(value)]
    /\ UNCHANGED value
    /\ UNCHANGED <<svars, rvars, mvars, lvars>>

CombinationsInit ==
    /\ SchedInit({<<>>})
    /\ RunnerIdle
    /\ value \in Values
    /\ combined = NotCombined
    /\ MonitorIdle
    /\ LogsIdle

CombinationsSpec == CombinationsInit /\ [][Combine]_vars

\* a call of combinations on an integer range
RangeInit ==
    /\ SchedInit({<<>>})
    /\ RunnerIdle
    /\ value \in Ranges
    /\ combined = NotCombined
    /\ MonitorIdle
    /\ LogsIdle

RangeSpec == RangeInit /\ [][Combine]_vars


(* ------------------------ scheduler: properties ------------------------ *)

HashAt(j) == hash_serialized(configurations[j])

ConfigHashes == {HashAt(j) : j \in DOMAIN configurations}

\* the hashes of the list positions held by a sequence of positions
HashesOf(positions) == {HashAt(positions[j]) : j \in DOMAIN positions}

\* how often a pass called run_configuration for hash h
Executions(s, h) == Cardinality({j \in DOMAIN s.executed : HashAt(s.executed[j]) = h})

ReturnedOk(s) == s.pc = "idle" /\ s.result = "Ok"

\* the pass has logged its summary, so its enumeration is complete
Enumerated(s) == s.report # NoReport

\* C1: two passes over one results directory without any failure: the
\* first executes every distinct configuration that is not completed yet
\* exactly once (every one, from an empty directory), the second none.
C1_IdempotentScheduling ==
    \A p \in Procs :
        LET s == proc[p] IN
        /\ (ReturnedOk(s) /\ Clean(s)) =>
              \A h \in ConfigHashes :
                  Executions(s, h) = IF exists(s.startFs, <<h, "">>) THEN 0 ELSE 1
        /\ (s.prev.result = "Ok" /\ s.prev.clean) => s.executed = <<>>

C1_Witness ==
    \E p \in Procs :
        LET s == proc[p] IN
        /\ s.prev.result = "Ok" /\ s.prev.clean
        /\ ReturnedOk(s)
        /\ Cardinality(ConfigHashes) = 2
        /\ s.report.skipped = 2
        /\ \A h \in ConfigHashes : fs[<<h, "">>] = Files

\* C2: a directory <h> exists only if pre_run, run and post_run have all
\* returned Ok for a configuration with hash h; while a configuration is
\* being executed, and after a crash, its <h> directory does not exist.
C2_CompletedOnlyAfterSuccess ==
    /\ \A h \in Hashes : exists(fs, <<h, "">>) => h \in succeeded
    /\ \A p \in Procs :
          InExecution(proc[p]) =>
              ~exists(fs, build_config_dir(CurrentConfig(proc[p])))
    /\ \A p \in Procs, h \in Hashes :
          (proc[p].pc = "idle" /\ proc[p].result = "Crash" /\ proc[p].endHash = h)
              => ~exists(fs, <<h, "">>)

C2_Witness ==
    \E p \in Procs, h \in Hashes :
        /\ exists(fs, <<h, "">>)
        /\ proc[p].prev.result = "Crash"
        /\ proc[p].pc = "post"
        /\ hash_serialized(CurrentConfig(proc[p])) # h

\* the pass ended by run returning (Ok or an error), not by a crash or panic
Returned(s) == s.pc = "idle" /\ s.result \in {"Ok", "Err"}

\* C3: when the process stops between the creation of <hash>.running and
\* the commit rename, that execution leaves no terminal directory for the
\* hash (<hash> is absent and <hash>.failed is as it was before the pass);
\* the next pass has the configuration in its work list and, when it runs
\* through its work list, executes it.
C3_CrashSafety ==
    \A p \in Procs, h \in Hashes :
        LET s == proc[p] IN
        /\ (s.pc = "idle" /\ s.result = "Crash" /\ s.endHash = h) =>
              /\ ~exists(fs, <<h, "">>)
              /\ fs[<<h, "failed">>] = s.startFs[<<h, "failed">>]
        /\ (s.prev.result = "Crash" /\ s.prev.hash = h) =>
              /\ Enumerated(s) => h \in HashesOf(s.configurations_to_run)
              /\ ReturnedOk(s) => Executions(s, h) = 1

C3_Witness ==
    \E p \in Procs, h \in Hashes :
        LET s == proc[p] IN
        /\ s.prev.result = "Crash" /\ s.prev.hash = h
        /\ exists(s.startFs, <<h, "running">>)
        /\ ReturnedOk(s)
        /\ Executions(s, h) = 1
        /\ exists(fs, <<h, "">>)

\* C4: in every pass, a callback error of a configuration ends in the
\* rename of its running directory to <hash>.failed, run still returns Ok
\* and every configuration of the work list is executed.
C4_FailureNeverAborts ==
    \A p \in Procs :
        LET s == proc[p] IN
        (Returned(s) /\ ~s.fault /\ s.cbFailed # {}) =>
            /\ s.result = "Ok"
            /\ s.executed = s.configurations_to_run
            /\ \A x \in s.cbFailed :
                  /\ exists(fs, <<HashAt(x[1]), "failed">>)
                  /\ ~exists(fs, <<HashAt(x[1]), "running">>)

IsRepeat(j) == \E j2 \in 1..(j - 1) : HashAt(j2) = HashAt(j)

Repeats(n) == {j \in 1..n : IsRepeat(j)}

\* C6: of several configurations with the same serialized content only the
\* first occurrence can be put in the work list and executed; every later
\* occurrence is counted as a duplicate; no hash is executed twice in a
\* pass; two identical configurations give one execution and one duplicate.
C6_Deduplication ==
    \A p \in Procs :
        LET s == proc[p] IN
        /\ \A j \in DOMAIN s.configurations_to_run :
              ~IsRepeat(s.configurations_to_run[j])
        /\ \A j \in DOMAIN s.executed : ~IsRepeat(s.executed[j])
        /\ \A j, j2 \in DOMAIN s.executed :
              HashAt(s.executed[j]) = HashAt(s.executed[j2]) => j = j2
        /\ s.pc = "enum" => s.duplicate_configurations = Cardinality(Repeats(s.i - 1))
        /\ Enumerated(s) =>
              s.report.duplicates = Cardinality(Repeats(Len(configurations)))
        /\ (ReturnedOk(s) /\ Clean(s) /\ Len(configurations) = 2
                /\ configurations[1] = configurations[2]
                /\ ~exists(s.startFs, <<HashAt(1), "">>)) =>
              /\ s.executed = <<1>>
              /\ s.report.duplicates = 1

C6_Witness ==
    \E p \in Procs :
        LET s == proc[p] IN
        /\ Len(configurations) = 2 /\ configurations[1] = configurations[2]
        /\ ReturnedOk(s)
        /\ s.executed = <<1>>
        /\ s.report.duplicates = 1
        /\ exists(fs, <<HashAt(1), "">>)

\* C7: a configuration whose <hash> directory exists is counted as skipped
\* and not executed in the pass; one that has only a <hash>.running
\* directory is put in the work list and executed when the pass runs
\* through its work list.
C7_SkipOnlyCompleted ==
    \A p \in Procs :
        LET s == proc[p] IN
        /\ \A h \in HashesOf(s.configurations_to_run) \cup HashesOf(s.executed) :
              ~exists(s.startFs, <<h, "">>)
        /\ Enumerated(s) =>
              s.report.skipped =
                  Cardinality({h \in ConfigHashes : exists(s.startFs, <<h, "">>)})
        /\ \A h \in ConfigHashes :
              (/\ exists(s.startFs, <<h, "running">>)
               /\ ~exists(s.startFs, <<h, "">>)
               /\ ~exists(s.startFs, <<h, "failed">>)) =>
                  /\ Enumerated(s) => h \in HashesOf(s.configurations_to_run)
                  /\ ReturnedOk(s) => Executions(s, h) = 1

C7_Witness ==
    \E p \in Procs, h1 \in ConfigHashes, h2 \in ConfigHashes :
        LET s == proc[p] IN
        /\ exists(s.startFs, <<h1, "">>)
        /\ exists(s.startFs, <<h2, "running">>)
        /\ ~exists(s.startFs, <<h2, "">>)
        /\ ~exists(s.startFs, <<h2, "failed">>)
        /\ ReturnedOk(s)
        /\ s.report.skipped = 1
        /\ Executions(s, h1) = 0
        /\ Executions(s, h2) = 1

ExistingDirs == {x \in Paths : exists(fs, x)}

\* the pass of the scenario: three distinct configurations, an empty
\* results directory, the second configuration fails in run(), nothing
\* else fails, and run has returned
ScenarioPass(s) ==
    /\ configurations = ScenarioConfigs
    /\ \A x \in Paths : ~exists(s.startFs, x)
    /\ Returned(s)
    /\ ~s.fault
    /\ s.cbFailed = {<<2, "run">>}

\* C8 as stated: the directories are <hash1>, <hash2>.failed, <hash3> and
\* the reported counts are executed=3, failed=1, skipped=0, duplicate=0.
C8_ScenarioAsStated ==
    \A p \in Procs :
        LET s == proc[p] IN
        ScenarioPass(s) =>
            /\ ExistingDirs = {<<HashAt(1), "">>, <<HashAt(2), "failed">>, <<HashAt(3), "">>}
            /\ {"executed", "failed", "skipped"} \subseteq DOMAIN s.report
            /\ s.report.executed = 3
            /\ s.report.failed = 1
            /\ s.report.skipped = 0

\* C8 amended: the directories are <hash1>, <hash2>.failed, <hash3>, run
\* returns Ok after three executions, and the summary the scheduler logs
\* holds skipped=0, duplicates=0, remaining=3 and no other count.
C8_Scenario ==
    \A p \in Procs :
        LET s == proc[p] IN
        ScenarioPass(s) =>
            /\ s.result = "Ok"
            /\ ExistingDirs = {<<HashAt(1), "">>, <<HashAt(2), "failed">>, <<HashAt(3), "">>}
            /\ s.executed = <<1, 2, 3>>
            /\ s.report = [skipped |-> 0, duplicates |-> 0, remaining |-> 3]

C8_Witness ==
    \E p \in Procs :
        /\ ScenarioPass(proc[p])
        /\ proc[p].report.remaining = 3
        /\ fs[<<HashAt(2), "failed">>] = Files


(* ------------------------- Runner: properties -------------------------- *)

\* every collector task has ended, by returning or by panicking
AllCollectorsEnded ==
    \A j \in DOMAIN futures : futures[j].st \in {"done", "panicked"}

\* a container is stopped or removed in this step
Teardown(c) ==
    \/ ops' = Append(ops, <<"stop", c>>)
    \/ ops' = Append(ops, <<"remove", c>>)

\* C9: finish returns only after every collector task the Runner spawned,
\* three for each container it added, has ended; once finish has returned no
\* step appends to a log, stats or top file.
C9_FinishJoinsCollectors ==
    /\ [](rpc = "returned" =>
            /\ Len(futures) = 3 * Len(containers)
            /\ AllCollectorsEnded)
    /\ [][rpc = "returned" => files' = files]_vars

\* finish has returned for a Runner with two containers whose six collectors
\* had started, one of which wrote a record
C9_Witness ==
    /\ rpc = "returned"
    /\ Len(containers) = 2
    /\ Len(futures) = 6
    /\ \E j \in DOMAIN futures : futures[j].st = "done"
    /\ \E j \in DOMAIN files : files[j] # <<>>

\* C10: in finish a container is stopped or removed only when every
\* collector task of the Runner, of whichever container, has ended: the first
\* stop comes after the join of all of them.
C10_JoinBeforeTeardown ==
    [][(\E c \in ContainerNames : Teardown(c)) =>
            /\ AllCollectorsEnded
            /\ Len(futures) = 3 * Len(containers)]_vars

\* both containers of a Runner have been stopped, after collectors of theirs
\* ended on the shutdown signal
C10_Witness ==
    /\ Len(containers) = 2
    /\ Len(futures) = 6
    /\ \E j \in DOMAIN ops : ops[j] = <<"stop", containers[1]>>
    /\ \E j \in DOMAIN ops : ops[j] = <<"stop", containers[2]>>
    /\ \E j \in DOMAIN futures : futures[j].st = "done" /\ futures[j].container = containers[2]


\* the networks finish has asked the engine to remove
RemovedNetworks ==
    {ops[j][2] : j \in {k \in DOMAIN ops : ops[k][1] = "remove_network"}}

\* C11: finish never asks for the removal of a network the engine held
\* before the Runner looked it up, and such a network stays in the engine;
\* the networks finish removes are networks add_container created, and when
\* finish has returned it has asked for the removal of exactly those, once
\* each.
C11_NetworkOwnership ==
    /\ RemovedNetworks \cap hist.preexisting = {}
    /\ hist.preexisting \subseteq engineNets
    /\ RemovedNetworks \subseteq hist.created
    /\ rpc = "returned" =>
          /\ RemovedNetworks = hist.created
          /\ Cardinality({k \in DOMAIN ops : ops[k][1] = "remove_network"})
                = Cardinality(hist.created)

\* finish has returned for a Runner whose two containers share a network
\* that the first add_container created, and the engine has dropped it
C11_Witness ==
    /\ rpc = "returned"
    /\ Len(containers) = 2
    /\ hist.created = {"n1"}
    /\ RemovedNetworks = {"n1"}
    /\ "n1" \notin engineNets


\* finish has sent the shutdown signal
SignalSent == rpc \in {"join", "stop", "remove", "nets", "returned"}

\* C12: finish sends the shutdown signal exactly once; the one firing is
\* observable by every collector task that has not ended, whether it has
\* started to run or not, and a collector leaves its loop only after it.
C12_SingleFiring ==
    /\ version = IF SignalSent THEN 1 ELSE 0
    /\ \A j \in DOMAIN futures :
        /\ futures[j].st = "done" => SignalSent
        /\ (SignalSent /\ futures[j].st \in {"spawned", "waiting"}) =>
              futures[j].seen # version

\* the signal has been sent while a collector of the second container has
\* not started to run, and a collector of the first has left its loop on it
C12_Witness ==
    /\ rpc = "join"
    /\ Len(futures) = 6
    /\ \E j \in DOMAIN futures :
          futures[j].st = "spawned" /\ futures[j].container = containers[2]
    /\ \E j \in DOMAIN futures :
          futures[j].st = "done" /\ futures[j].container = containers[1]


\* the collector tasks of a kind
TasksOf(kind) == {j \in DOMAIN futures : futures[j].kind = kind}

\* C13: the log file of a container holds the log items its collector
\* received, in the order it received them from the stream: the positions
\* in the stream of the records of the file increase strictly, so none is
\* repeated and none is out of order.
C13_LogOrder ==
    \A t \in TasksOf("logs") :
        \A j, k \in DOMAIN files[t] : j < k => files[t][j] < files[t][k]

\* a log file with two lines
C13_Witness ==
    \E t \in TasksOf("logs") : Len(files[t]) = 2 /\ files[t][1] < files[t][2]


\* the list positions of this pass whose <hash>.running directory exists
RunningOf(s) ==
    {j \in DOMAIN s.executed : exists(fs, <<HashAt(s.executed[j]), "running">>)}

\* C14: a pass executes the configurations of its work list in the order
\* of the list and one at a time: while the pass runs, the only
\* configuration of the pass that has a <hash>.running directory is the one
\* in execution, the last one started; between two executions there is none.
C14_OneAtATime ==
    \A p \in Procs :
        LET s == proc[p] IN
        /\ s.executed = SubSeq(s.configurations_to_run, 1, Len(s.executed))
        /\ s.pc # "idle" =>
              /\ RunningOf(s) \subseteq {Len(s.executed)}
              /\ s.pc = "loop" => RunningOf(s) = {}
              /\ InExecution(s) => s.k = Len(s.executed)

\* the second configuration of the work list is in execution and the first
\* has been committed
C14_Witness ==
    \E p \in Procs :
        LET s == proc[p] IN
        /\ s.pc = "run"
        /\ s.executed = <<1, 2>>
        /\ RunningOf(s) = {2}
        /\ exists(fs, <<HashAt(1), "">>)


\* the hash of a value is the digest of its serialized bytes, so values
\* with the same bytes have the same hash
HashIsDigest ==
    /\ \A c \in Contents : hash_serialized(c) = blake3(ser(c))
    /\ \A c, d \in Contents : ser(c) = ser(d) => hash_serialized(c) = hash_serialized(d)

C16_FreshRunDirectory ==
    \A p \in Procs :
        LET s == proc[p]
            dir == set_extension(build_config_dir(CurrentConfig(s)), "running")
        IN s.pc = "run" => /\ exists(fs, dir)
                           /\ fs[dir] \subseteq {"configuration.json"}


\* C17: environment.json is written once for an experiment root, before
\* the first <hash>.running directory is created; a later pass over the
\* root does not write it again.
C17_SnapshotOnce ==
    /\ envWrites <= 1
    /\ (\E x \in Paths : exists(fs, x)) => envWrites >= 1


\* the callbacks that returned an error for the configuration in execution
FailedCallbacks(s) ==
    {cb \in {"pre_run", "run", "post_run"} :
        <<s.configurations_to_run[s.k], cb>> \in s.cbFailed}

\* per place of an execution: the places control comes to it from
Before ==
    [write |-> {"loop"}, pre |-> {"write"}, run |-> {"pre"}, post |-> {"run"},
     commit |-> {"write", "pre", "run", "post"}]

\* C18: for a configuration in execution pre_run, run and post_run are
\* called in this order and each at most once; run is called only after
\* pre_run returned Ok and post_run only after run returned Ok; the
\* directory is renamed to <hash> only after post_run returned Ok, and an
\* error of any of the three takes control to the rename to <hash>.failed.
C18_CallbackOrder ==
    /\ [](\A p \in Procs :
            LET s == proc[p] IN
            /\ s.pc \in {"pre", "run", "post"} => FailedCallbacks(s) = {}
            /\ s.pc = "commit" =>
                  /\ s.outcome = "Ok" => FailedCallbacks(s) = {}
                  /\ FailedCallbacks(s) # {} =>
                        commit_dir(CurrentConfig(s), s.outcome) =
                            <<HashAt(s.configurations_to_run[s.k]), "failed">>
                  /\ s.outcome = "Ok" =>
                        commit_dir(CurrentConfig(s), s.outcome) =
                            <<HashAt(s.configurations_to_run[s.k]), "">>
                  /\ Cardinality(FailedCallbacks(s)) <= 1)
    /\ [][\A p \in Procs :
            LET s == proc[p]
                s2 == proc'[p]
            IN
            /\ (s2.pc # s.pc /\ s2.pc \in DOMAIN Before) => s.pc \in Before[s2.pc]
            /\ (s.pc \in {"pre", "run", "post"} /\ s2 # s) => s2.pc # s.pc
            /\ (s.pc = "post" /\ s2.pc = "commit") =>
                  (s2.outcome = "Ok" <=> FailedCallbacks(s2) = {})]_vars
    /\ [][\A h \in Hashes :
            /\ fs'[<<h, "">>] # fs[<<h, "">>] =>
                  \E p \in Procs :
                      /\ proc[p].pc = "commit" /\ proc[p].outcome = "Ok"
                      /\ h = hash_serialized(CurrentConfig(proc[p]))
            /\ fs'[<<h, "failed">>] # fs[<<h, "failed">>] =>
                  \E p \in Procs :
                      /\ proc[p].pc = "commit" /\ proc[p].outcome = "Err"
                      /\ h = hash_serialized(CurrentConfig(proc[p]))]_vars

\* the first configuration failed in post_run and was renamed to
\* <hash>.failed; the second has passed its three callbacks
C18_Witness ==
    \E p \in Procs :
        LET s == proc[p] IN
        /\ s.pc = "commit"
        /\ s.outcome = "Ok"
        /\ s.k = 2
        /\ s.cbFailed = {<<s.configurations_to_run[1], "post_run">>}
        /\ exists(fs, <<HashAt(s.configurations_to_run[1]), "failed">>)


\* C19: a collector for which the shutdown signal is ready takes the
\* shutdown branch, whatever else is ready: from the moment it could
\* observe the signal it appends no record to its file.
C19_ShutdownPriority ==
    [][\A t \in DOMAIN futures :
          (futures[t].st = "waiting" /\ version # futures[t].seen) =>
              files'[t] = files[t]]_vars


\* the requests finish has sent for a container or network
Requests(kind, name) == {j \in DOMAIN ops : ops[j] = <<kind, name>>}

\* finish has returned after asking the engine to stop and to remove every
\* container, and to remove every network the Runner tracks
TornDown ==
    /\ rpc = "returned"
    /\ \A j \in DOMAIN containers :
          /\ Requests("stop", containers[j]) # {}
          /\ Requests("remove", containers[j]) # {}
    /\ \A j \in DOMAIN networks : Requests("remove_network", networks[j]) # {}

\* C20: with the tasks scheduled fairly, finish terminates: once it has
\* sent the shutdown signal, every collector task ends, and finish stops and
\* removes every container, removes every network and returns, however many
\* containers were added.
C20_FinishTerminates ==
    (rpc = "join") ~> (TornDown /\ AllCollectorsEnded)

\* finish has returned for a Runner with two containers on a network the
\* Runner created
C20_Witness ==
    /\ TornDown
    /\ Len(containers) = 2
    /\ networks = <<"n1">>
    /\ Len(ops) = 5
    /\ \E j \in DOMAIN futures : futures[j].st = "done"


\* C21: a log or stats collector whose stream is exhausted before the
\* shutdown signal leaves its loop with the exhaustion, without waiting for
\* the signal: no such collector is still in its loop once its stream has
\* yielded None.
C21_ExitOnExhaustion ==
    \A t \in TasksOf("logs") \cup TasksOf("stats") :
        futures[t].ended => futures[t].st # "waiting"


\* C22: an error item of the log stream or of the stats stream, and a failed
\* top poll, is skipped: in the step that handles it the collector writes
\* nothing, no file changes, the collector stays in its loop with its source
\* still live, and neither the task that owns the Runner (add_container,
\* finish) nor the scheduler sees anything of it.
C22_ItemErrorSkipped ==
    [][\A t \in DOMAIN futures, written \in BOOLEAN :
          HandleItem(t, MaxLines, "err", written) =>
              /\ files' = files
              /\ futures' = futures
              /\ futures'[t].st = "waiting" /\ ~futures'[t].ended
              /\ rpc' = rpc
              /\ proc' = proc /\ last' = last]_vars

\* the log collector is the only task of the container that has run; it has
\* written the first and the third item it was given, so the second was an
\* error that it skipped, and it is still in its loop
C22_Witness ==
    /\ rpc = "ready"
    /\ delivered = 3
    /\ \E t \in TasksOf("logs") :
          /\ files[t] = <<1, 3>>
          /\ futures[t].st = "waiting"
          /\ \A u \in DOMAIN futures \ {t} : futures[u].st = "spawned"


\* C23: a resource-usage sample that the stats collector receives as Ok, and
\* whose record the csv writer accepts, adds exactly one record to the
\* container's stats file and leaves the collector in its loop.
C23_StatsRecordPerSample ==
    [][\A t \in TasksOf("stats") :
          HandleItem(t, MaxLines, "ok", TRUE) =>
              /\ Len(files'[t]) = Len(files[t]) + 1
              /\ futures'[t].st = "waiting"]_vars


\* the requests of a complete teardown, in the order finish sends them: stop
\* and remove for each container, then remove_network for each network
RECURSIVE ContainerPlan(_)
ContainerPlan(cs) ==
    IF cs = <<>> THEN <<>>
    ELSE <<<<"stop", Head(cs)>>, <<"remove", Head(cs)>>>> \o ContainerPlan(Tail(cs))

TeardownPlan ==
    ContainerPlan(containers)
        \o [j \in 1..Len(networks) |-> <<"remove_network", networks[j]>>]

\* C24: the requests finish sends are, in this order, stop and remove for
\* the first container added, stop and remove for the next, and so on, then
\* the removal of the networks; nothing is sent before the collectors have
\* been joined, and finish returns when all of it has been sent.
C24_TeardownOrder ==
    /\ Len(ops) <= Len(TeardownPlan)
    /\ ops = SubSeq(TeardownPlan, 1, Len(ops))
    /\ ops # <<>> => AllCollectorsEnded /\ SignalSent
    /\ rpc = "returned" => ops = TeardownPlan
    /\ rpc \in {"stop", "remove"} =>
          Len(ops) = 2 * (idx - 1) + (IF rpc = "remove" THEN 1 ELSE 0)
    /\ rpc = "nets" => Len(ops) = 2 * Len(containers) + idx - 1

\* finish has returned for a Runner with containers c1 and c2, added in this
\* order, on a network the Runner created
C24_Witness ==
    /\ rpc = "returned"
    /\ ops = <<<<"stop", "c1">>, <<"remove", "c1">>, <<"stop", "c2">>,
               <<"remove", "c2">>, <<"remove_network", "n1">>>>


\* C25: an engine error in teardown ends nothing: once finish has sent its
\* first teardown request the task that owns the Runner does not panic; a
\* container whose stop failed is still asked to be removed; and finish
\* returns having asked for the stop and the removal of every container and
\* for the removal of every tracked network, whichever of these requests the
\* engine refused.
C25_BestEffortTeardown ==
    /\ rpc = "panicked" => ops = <<>>
    /\ rpc = "returned" => TornDown
    /\ \A c \in ContainerNames :
          (Requests("stop", c) # {} /\ rpc \notin {"stop", "remove"}) =>
              Requests("remove", c) # {}

\* finish has returned although the engine refused to stop and to remove the
\* first container and to remove the network: the second container is gone
C25_Witness ==
    /\ rpc = "returned"
    /\ containers = <<"c1", "c2">>
    /\ engine["c1"] = "running"
    /\ engine["c2"] = "none"
    /\ hist.created = {"n1"}
    /\ "n1" \in engineNets
    /\ Len(ops) = 5


\* how often a network is in the list of networks the Runner tracks
Tracked(n) == Cardinality({j \in DOMAIN networks : networks[j] = n})

\* C26: an add_container call that names a network and gets past its
\* network stage creates the network exactly when the engine held none of
\* that name, and tracks it exactly then; a network is tracked at most
\* once, only if the Runner created it, and a network the Runner created is
\* not created again by a later container that names it.
C26_IdempotentProvisioning ==
    /\ [](\A n \in NetworkNames :
            /\ Tracked(n) <= 1
            /\ Tracked(n) = 1 <=> n \in hist.created
            /\ n \in hist.created => n \notin hist.preexisting
            /\ (n \in hist.created /\ rpc = "ready") => n \in engineNets)
    \* (a step of add_container adds a container or panics)
    /\ [][(rpc = "ready" /\ (rpc' = "panicked" \/ Len(containers') # Len(containers))) =>
            \A config \in ContainerConfigs, failure \in DOMAIN Stage :
                (/\ config.network # NoNetwork
                 /\ Stage[failure] > Stage["network"]
                 /\ AddContainerWith(config, failure)) =>
                    LET absent == config.network \notin engineNets IN
                    /\ config.network \in engineNets'
                    /\ engineNets' = engineNets \cup {config.network}
                    /\ networks' = IF absent THEN Append(networks, config.network)
                                   ELSE networks
                    /\ hist'.created = IF absent THEN hist.created \cup {config.network}
                                       ELSE hist.created]_vars

\* two containers on the network n1, which the engine did not hold: the
\* Runner tracks it once
C26_Witness ==
    /\ rpc = "ready"
    /\ containers = <<"c1", "c2">>
    /\ engine["c2"] = "running"
    /\ hist.preexisting = {}
    /\ networks = <<"n1">>
    /\ Tracked("n1") = 1


\* the step in which create_experiment_dir fails and run returns its error
RootFailed(p) ==
    proc[p].pc = "idle" /\ proc'[p].pc = "idle" /\ proc'[p] # proc[p]

\* the step in which collect_environment_data panics
EnvironmentFailed(p) ==
    proc[p].pc = "env" /\ proc'[p].pc = "idle" /\ proc'[p].result = "Panic"

CreateFailed(p) ==
    /\ proc[p].pc = "loop"
    /\ proc[p].k <= Len(proc[p].configurations_to_run)
    /\ proc'[p].pc = "idle" /\ proc'[p].result = "Err"

\* the step in which the commit rename fails
RenameFailed(p) ==
    proc[p].pc = "commit" /\ proc'[p].pc = "idle" /\ proc'[p].result = "Err"

\* C28: a pass goes from the creation of <hash>.running to the callbacks
\* only with the directory made, and from the commit to the next
\* configuration only with the rename done. When the creation or the rename
\* fails, run returns an error in that step: the configurations executed
\* are those executed so far, a strict prefix of the work list when later
\* ones remain, and no directory changes; after a failed creation the
\* configuration is not among the executed ones and has no callback result.
\* A pass that has returned executes nothing more.
C28_AbortOnDirectoryError ==
    [][\A p \in Procs :
          LET s == proc[p]
              s2 == proc'[p]
          IN
          /\ (s.pc = "loop" /\ s2.pc = "write") =>
                exists(fs', set_extension(build_config_dir(CurrentConfig(s)), "running"))
          /\ (s.pc = "commit" /\ s2.pc = "loop") =>
                /\ ~exists(fs', set_extension(build_config_dir(CurrentConfig(s)), "running"))
                /\ exists(fs', commit_dir(CurrentConfig(s), s.outcome))
          /\ (CreateFailed(p) \/ RenameFailed(p)) =>
                /\ fs' = fs
                /\ succeeded' = succeeded
                /\ s2.executed = s.executed
                /\ s2.cbFailed = s.cbFailed
                /\ s2.executed = SubSeq(s.configurations_to_run, 1, Len(s2.executed))
          /\ CreateFailed(p) =>
                /\ Len(s2.executed) = s.k - 1
                /\ \A cb \in {"pre_run", "run", "post_run"} :
                      <<s.configurations_to_run[s.k], cb>> \notin s2.cbFailed
          /\ RenameFailed(p) => Len(s2.executed) = s.k
          /\ (s.pc = "idle" /\ s2.pc = "idle") => s2.executed \in {s.executed, <<>>}]_vars

\* run has returned an error from the commit rename of the first of two
\* configurations of its work list; the second has not been executed
C28_Witness ==
    \E p \in Procs :
        LET s == proc[p] IN
        /\ Len(configurations) = 2
        /\ s.pc = "idle" /\ s.result = "Err"
        /\ s.endHash = HashAt(1)
        /\ Len(s.configurations_to_run) = 2
        /\ s.executed = <<1>>
        /\ exists(fs, <<HashAt(1), "running">>)
        /\ \A x \in Exts : ~exists(fs, <<HashAt(2), x>>)


\* the processes that are executing a configuration with hash h
Executing(h) ==
    {p \in Procs : InExecution(proc[p]) /\ hash_serialized(CurrentConfig(proc[p])) = h}

\* C29: nothing a scheduler process does looks at what another process is
\* doing. The skip filter puts a configuration in the work list exactly when
\* its hash was not seen earlier in the list and <hash> does not exist,
\* whether or not <hash>.running exists and another process is executing it;
\* the creation of <hash>.running succeeds on a directory that another
\* process has made and leaves it as it is. So two processes can be
\* executing one hash in one <hash>.running at the same time.
C29_NoLocking ==
    [][\A p \in Procs :
          LET s == proc[p]
              s2 == proc'[p]
          IN
          /\ (s.pc = "enum" /\ s2.pc = "enum" /\ s2.i = s.i + 1) =>
                LET h == HashAt(s.i) IN
                /\ (s2.configurations_to_run = Append(s.configurations_to_run, s.i))
                      <=> (h \notin s.seen_configuration_hashes /\ ~exists(fs, <<h, "">>))
                /\ s2.configurations_to_run
                      \in {s.configurations_to_run, Append(s.configurations_to_run, s.i)}
          /\ (s.pc = "loop" /\ s2.pc = "write") =>
                LET dir == <<hash_serialized(CurrentConfig(s)), "running">> IN
                /\ exists(fs', dir)
                /\ exists(fs, dir) => fs' = fs]_vars

\* both processes are in the run callback of the configuration with the
\* same hash, in the same <hash>.running directory
C29_Witness ==
    \E h \in Hashes :
        /\ Executing(h) = Procs
        /\ \A p \in Procs : proc[p].pc = "run"
        /\ exists(fs, <<h, "running">>)
        /\ ~exists(fs, <<h, "">>)


\* how many values an element of a vector contributes, and the j-th of them
Size(e) == IF e.tag = "scalar" THEN 1 ELSE Len(e.items)

Leaf(e, j) == IF e.tag = "scalar" THEN e.v ELSE e.items[j].v

\* how many values the elements before position i of a vector contribute
RECURSIVE Offset(_, _)
Offset(items, i) ==
    IF i <= 1 THEN 0 ELSE Offset(items, i - 1) + Size(items[i - 1])

\* C30: the combinations of a scalar is the list of that one value. The
\* combinations of a vector is the values of its first element, then the
\* values of its second, and so on: every element contributes all its
\* values at its place, also when an equal element or an equal value came
\* before, and the values of a nested vector stand in the list itself.
C30_VecCombinations ==
    combined.done =>
        IF value.tag = "scalar"
        THEN combined.list = <<value.v>>
        ELSE /\ Len(combined.list) = Offset(value.items, Len(value.items) + 1)
             /\ \A i \in DOMAIN value.items :
                   \A j \in 1..Size(value.items[i]) :
                       combined.list[Offset(value.items, i) + j]
                           = Leaf(value.items[i], j)

\* vec![vec![0, 1], vec![0, 1]] gives 0, 1, 0, 1
C30_Witness ==
    /\ combined.done
    /\ value.tag = "vec"
    /\ Len(value.items) = 2
    /\ value.items[1] = value.items[2]
    /\ value.items[1].tag = "vec"
    /\ combined.list = <<0, 1, 0, 1>>


\* C31: the combinations of the range a..b is the ascending list a, a+1,
\* ..., b-1, empty when a >= b; the combinations of a..=b is the ascending
\* list a, ..., b with the upper bound in it, empty when a > b; the call
\* leaves the range as it was.
C31_RangeCombinations ==
    /\ [](combined.done =>
            LET a == value.start
                b == value.end
                n == IF value.tag = "range"
                     THEN (IF a >= b THEN 0 ELSE b - a)
                     ELSE (IF a > b THEN 0 ELSE b - a + 1)
            IN /\ value.tag \in {"range", "range_inclusive"}
               /\ Len(combined.list) = n
               /\ \A k \in 1..n : combined.list[k] = a + k - 1)
    /\ [][value' = value]_vars

\* 2..5 gives 2, 3, 4
C31_Witness ==
    /\ combined.done
    /\ value.tag = "range"
    /\ value.start = 2
    /\ value.end = 5
    /\ combined.list = <<2, 3, 4>>


(* --------------------------- monitor: steps ---------------------------- *)

\* the orders in which a HashMap of the given pids can be iterated
Orders(pids) ==
    {o \in [1..Cardinality(pids) -> pids] :
        \A j, k \in DOMAIN o : j # k => o[j] # o[k]}

\* a lookup that finds the process whether it exists or not
found_always(p) == TRUE

\* run, line 55: sys.process(self.pid) is Some after refresh_all
found(p) == p.alive

\* a write_process that leaves the tasks out
write_process_alone(time, pid, order) == <<[time |-> time, pid |-> pid]>>

\* write_process, lines 74-91: the measurement of the process, then
\* write_process for each of its tasks in the order the map yields them
\* (a task has no tasks of its own)
write_process(time, pid, order) ==
    <<[time |-> time, pid |-> pid]>> \o [k \in DOMAIN order |-> [time |-> time, pid |-> order[k]]]

\* what can go wrong in a sample: nothing, an unwrap of write_process
\* (parent() is None, serialize fails), the unwrap of flush
SampleFailures == {"none", "record", "flush"}

\* run, line 47-49: System::new_all(), then the loop is entered
MonitorRun ==
    /\ monitor.pc = "created"
    /\ monitor' = [monitor EXCEPT !.pc = "loop"]
    /\ UNCHANGED <<process, writer>>
    /\ UNCHANGED <<svars, rvars, cvars, lvars>>

\* run, lines 50-71: one iteration of the loop. refresh_all takes the
\* snapshot the iteration works on; order is the order process.tasks is
\* iterated in, failure what goes wrong, and written how many records were
\* serialized before a write_process panicked.
SampleWith(order, failure, written) ==
    LET time == monitor.samples + 1
        sample == write_process(time, MonitoredPid, order)
    IN
    /\ monitor.pc = "loop"
    /\ monitor.samples < MaxSamples
    /\ IF found(process)
       THEN /\ order \in Orders(process.tasks)
            /\ IF failure = "record"
               THEN /\ written < Len(sample)
                    /\ writer' = [writer EXCEPT !.records = @ \o SubSeq(sample, 1, written)]
                    /\ monitor' = [pc |-> "panicked", samples |-> time]
               ELSE /\ written = Len(sample)
                    /\ writer' = [records |-> writer.records \o sample,
                                  flushed |-> IF failure = "none"
                                              THEN Len(writer.records \o sample)
                                              ELSE writer.flushed]
                    /\ monitor' = [pc |-> IF failure = "none" THEN "loop" ELSE "panicked",
                                   samples |-> time]
       ELSE /\ order = <<>>
            /\ failure = "none"
            /\ written = 0
            /\ monitor' = [pc |-> "returned", samples |-> time]
            /\ UNCHANGED writer
    /\ UNCHANGED process
    /\ UNCHANGED <<svars, rvars, cvars, lvars>>

Sample ==
    \E order \in UNION {Orders(pids) : pids \in SUBSET TaskPids},
       failure \in SampleFailures, written \in 0..MaxTasks + 1 :
        SampleWith(order, failure, written)

\* the monitored process exits
ProcessExit ==
    /\ monitor.pc \in {"created", "loop"}
    /\ process.alive
    /\ process' = [alive |-> FALSE, tasks |-> {}]
    /\ UNCHANGED <<monitor, writer>>
    /\ UNCHANGED <<svars, rvars, cvars, lvars>>

\* the monitored process starts or ends a task
TasksChange ==
    /\ monitor.pc \in {"created", "loop"}
    /\ process.alive
    /\ \E pid \in TaskPids :
        process' = [process EXCEPT !.tasks = IF pid \in @ THEN @ \ {pid} ELSE @ \cup {pid}]
    /\ UNCHANGED <<monitor, writer>>
    /\ UNCHANGED <<svars, rvars, cvars, lvars>>

MonitorNext ==
    \/ MonitorRun
    \/ Sample
    \/ ProcessExit
    \/ TasksChange

\* a ProcessMonitor constructed for a pid that may or may not be a process
MonitorInit ==
    /\ SchedInit({<<>>})
    /\ RunnerIdle
    /\ CombinationsIdle
    /\ LogsIdle
    /\ monitor = [pc |-> "created", samples |-> 0]
    /\ process \in [alive : {TRUE}, tasks : SUBSET TaskPids]
                       \cup {[alive |-> FALSE, tasks |-> {}]}
    /\ writer = NoRecords

MonitorSpec == MonitorInit /\ [][MonitorNext]_vars

\* the records of the sample taken at the given time
RecordsOf(time) == SelectSeq(writer.records, LAMBDA r : r.time = time)

\* C32: an iteration of the loop of run that finds the process and ends
\* writes one record for the process and one for each task the process has
\* in that sample, all after the records of the samples before, and leaves
\* every record flushed; run goes on looping after it. The iteration that
\* does not find the process writes nothing and makes run return; run
\* returns in no other step, so never while the process is found.
C32_SampleLoop ==
    [][/\ \A order \in Orders(process.tasks) :
            (/\ process.alive
             /\ monitor'.samples # monitor.samples
             /\ \E written \in 0..MaxTasks + 1 : SampleWith(order, "none", written)) =>
                /\ monitor'.pc = "loop"
                /\ Len(writer'.records) = Len(writer.records) + 1 + Cardinality(process.tasks)
                /\ SubSeq(writer'.records, 1, Len(writer.records)) = writer.records
                /\ \A pid \in {MonitoredPid} \cup process.tasks :
                      Cardinality({k \in DOMAIN writer'.records :
                          writer'.records[k] = [time |-> monitor'.samples, pid |-> pid]}) = 1
                /\ writer'.flushed = Len(writer'.records)
       /\ (monitor.pc = "loop" /\ monitor'.samples # monitor.samples /\ ~process.alive) =>
                monitor'.pc = "returned" /\ writer' = writer
       /\ (monitor'.pc = "returned" /\ monitor.pc # "returned") =>
                ~process.alive /\ writer' = writer]_vars

\* a sample of a process with two tasks was written, and the second
\* sample found no process
C32_Witness ==
    /\ monitor = [pc |-> "returned", samples |-> 2]
    /\ Len(writer.records) = 3
    /\ writer.flushed = 3
    /\ Len(RecordsOf(1)) = 3
    /\ Len(RecordsOf(2)) = 0


\* the list positions that hold the first occurrence of their hash
FirstOccurrences == {j \in DOMAIN configurations : ~IsRepeat(j)}

\* C33: the enumeration puts every configuration of the list in exactly one
\* of three classes. While it runs, the three counts add up to the number
\* of configurations looked at; in the summary they add up to the length of
\* the list. Every occurrence of a hash after its first is a duplicate,
\* whether its directory exists or not; of the first occurrences, those
\* whose directory exists are skipped and the others are the work list, so
\* no two entries of the work list have the same hash.
C33_Classification ==
    LET s == proc[1] IN
    /\ s.pc = "enum" =>
          s.duplicate_configurations + s.skipped_configurations
              + Len(s.configurations_to_run) = s.i - 1
    /\ (Enumerated(s) /\ s.pc # "idle") =>
          /\ s.report.skipped + s.report.duplicates + s.report.remaining
                = Len(configurations)
          /\ s.report.duplicates = Cardinality(Repeats(Len(configurations)))
          /\ s.report.skipped =
                Cardinality({j \in FirstOccurrences :
                    exists(s.startFs, build_config_dir(configurations[j]))})
          /\ s.report.remaining = Len(s.configurations_to_run)
    /\ \A j, k \in DOMAIN s.configurations_to_run :
          j # k => HashAt(s.configurations_to_run[j]) # HashAt(s.configurations_to_run[k])

\* a list that holds a completed configuration twice: the first occurrence
\* is skipped and the second is a duplicate
C33_Witness ==
    /\ Len(configurations) = 2
    /\ configurations[1] = configurations[2]
    /\ proc[1].pc = "loop"
    /\ exists(fs, build_config_dir(configurations[1]))
    /\ proc[1].report = [skipped |-> 1, duplicates |-> 1, remaining |-> 0]


\* C34: for every hash, at most one of the directories <hash>,
\* <hash>.running and <hash>.failed exists, in every state that passes of
\* one scheduler run one after another can reach.
C34_AtMostOneDirectory ==
    \A h \in Hashes :
        Cardinality({e \in Exts : exists(fs, <<h, e>>)}) <= 1


\* C35: when run has returned Ok, every configuration of the work list of
\* that pass is committed: its <hash>.running directory does not exist and
\* a terminal directory does. A configuration with a failed callback has
\* <hash>.failed and no <hash>; without a failed callback and without an
\* I/O error in the pass it has <hash>; and <hash> exists only for a
\* configuration whose three callbacks all returned Ok.
C35_OkMeansCommitted ==
    LET s == proc[1] IN
    (s.pc = "idle" /\ s.result = "Ok") =>
        \A k \in DOMAIN s.configurations_to_run :
            LET j == s.configurations_to_run[k]
                dir == build_config_dir(configurations[j])
                completed == exists(fs, dir)
                failed == exists(fs, set_extension(dir, "failed"))
            IN /\ ~exists(fs, set_extension(dir, "running"))
               /\ completed \/ failed
               /\ completed => HashAt(j) \in succeeded
               /\ IF \E cb \in {"pre_run", "run", "post_run"} : <<j, cb>> \in s.cbFailed
                  THEN failed /\ ~completed
                  ELSE ~s.fault => completed

\* a pass over two configurations has returned Ok: the first failed, the
\* second succeeded
C35_Witness ==
    /\ Len(configurations) = 2
    /\ proc[1].pc = "idle"
    /\ proc[1].result = "Ok"
    /\ proc[1].configurations_to_run = <<1, 2>>
    /\ proc[1].cbFailed = {<<1, "run">>}
    /\ exists(fs, set_extension(build_config_dir(configurations[1]), "failed"))
    /\ exists(fs, build_config_dir(configurations[2]))


\* the work list the enumeration arrives at from a directory state: the
\* first occurrences whose <hash> directory does not exist, in list order
RECURSIVE WorkList(_, _)
WorkList(f, n) ==
    IF n = 0 THEN <<>>
    ELSE IF ~IsRepeat(n) /\ ~exists(f, build_config_dir(configurations[n]))
    THEN Append(WorkList(f, n - 1), n)
    ELSE WorkList(f, n - 1)

\* C36: once the enumeration has ended, the work list is the one that
\* follows from the directories as they were when the pass was started, and
\* no later step of the pass changes it: what is executed is a prefix of
\* it, whatever the pass has created since. A pass that ends during the
\* enumeration with an error (a configuration could not be hashed) has
\* executed no configuration and has left the directories as they were.
C36_WorkListFixed ==
    /\ [](Enumerated(proc[1]) =>
            LET s == proc[1] IN
            /\ s.configurations_to_run = WorkList(s.startFs, Len(configurations))
            /\ Len(s.executed) <= Len(s.configurations_to_run)
            /\ s.executed = SubSeq(s.configurations_to_run, 1, Len(s.executed)))
    /\ [][(proc[1].pc = "enum" /\ proc'[1].pc = "idle" /\ proc'[1].result # "Crash") =>
              /\ proc'[1].result = "Err"
              /\ proc'[1].executed = <<>>
              /\ fs' = proc[1].startFs]_vars

\* the second configuration is in execution while the directory of the
\* first, created in this pass, exists
C36_Witness ==
    /\ Len(configurations) = 2
    /\ proc[1].configurations_to_run = <<1, 2>>
    /\ proc[1].executed = <<1, 2>>
    /\ proc[1].pc = "run"
    /\ exists(fs, build_config_dir(configurations[1]))
    /\ ~exists(proc[1].startFs, build_config_dir(configurations[1]))


\* C37: when the write of configuration.json fails, control goes to the
\* commit without pre_run, run or post_run being called, and the commit of
\* such a configuration (unless the process is killed, or the rename fails
\* with an I/O error although it could be done) renames <hash>.running to
\* <hash>.failed and goes on with the next configuration of the work list.
C37_WriteFailure ==
    [][/\ (proc[1].pc = "write" /\ proc'[1].pc \notin {"write", "pre", "idle"}) =>
            /\ proc'[1].pc = "commit"
            /\ proc'[1].outcome = "Err"
            /\ proc'[1].cbFailed = proc[1].cbFailed
            /\ succeeded' = succeeded
       /\ (/\ proc[1].pc = "commit"
           /\ proc[1].outcome = "Err"
           /\ FailedCallbacks(proc[1]) = {}
           /\ proc'[1].result # "Crash"
           /\ LET dir == build_config_dir(CurrentConfig(proc[1]))
              IN ~(/\ rename_ok(fs, set_extension(dir, "running"), set_extension(dir, "failed"))
                   /\ fs' = fs)) =>
            LET dir == build_config_dir(CurrentConfig(proc[1]))
            IN /\ exists(fs', set_extension(dir, "failed"))
               /\ ~exists(fs', set_extension(dir, "running"))
               /\ proc'[1].pc = "loop"
               /\ proc'[1].k = proc[1].k + 1]_vars


\* some collector task has panicked
SomePanicked == \E j \in DOMAIN futures : futures[j].st = "panicked"

\* C38: with the tasks scheduled fairly, a collector task that has panicked
\* neither blocks nor aborts finish: when finish waits for the collectors
\* and one of them has panicked, finish comes to return with every
\* collector ended and with the complete teardown sent, stop and remove for
\* every container and the removal of every tracked network; and finish
\* goes past the join only when every collector has ended.
C38_PanickedCollector ==
    /\ (rpc = "join" /\ SomePanicked)
          ~> (TornDown /\ AllCollectorsEnded /\ SomePanicked /\ ops = TeardownPlan)
    /\ [][(rpc = "join" /\ rpc' # "join") =>
              (rpc' # "panicked" /\ AllCollectorsEnded)]_vars

\* finish has returned for two containers on a tracked network, although a
\* collector of each kind had panicked
C38_Witness ==
    /\ TornDown
    /\ Len(containers) = 2
    /\ networks = <<"n1">>
    /\ ops = TeardownPlan
    /\ \A kind \in {"logs", "stats", "top"} :
          \E j \in TasksOf(kind) : futures[j].st = "panicked"
    /\ \E j \in DOMAIN futures : futures[j].st = "done"


\* the kinds of collector add_container spawns for a container, in the
\* order it spawns them
CollectorKinds == <<"logs", "stats", "top">>

\* C39: unless a call of the Runner's owner has panicked, the Runner holds
\* three collector tasks for each container of its list, a log, a stats
\* and a top collector of that container, at the places of the list of
\* tasks that belong to the container's place in the list of containers,
\* and no network is tracked twice. An add_container call that returns
\* appends the name it was given to the list of containers and leaves the
\* names before it, and their tasks, where they were.
C39_RunnerLists ==
    /\ [](rpc # "panicked" =>
            /\ Len(futures) = 3 * Len(containers)
            /\ \A j \in DOMAIN containers, k \in DOMAIN CollectorKinds :
                  /\ futures[3 * (j - 1) + k].kind = CollectorKinds[k]
                  /\ futures[3 * (j - 1) + k].container = containers[j]
            /\ \A n \in NetworkNames : Tracked(n) <= 1)
    /\ [][(rpc = "ready" /\ rpc' = "ready" /\ containers' # containers) =>
              \A config \in ContainerConfigs :
                  AddContainerWith(config, "none") =>
                      /\ containers' = Append(containers, config.name)
                      /\ Len(futures') = Len(futures) + 3
                      /\ SubSeq(futures', 1, Len(futures)) = futures]_vars

\* two add_container calls have returned, both for containers on n1
C39_Witness ==
    /\ rpc = "ready"
    /\ containers = <<"c1", "c2">>
    /\ networks = <<"n1">>
    /\ Len(futures) = 6
    /\ futures[5].kind = "stats"
    /\ futures[5].container = "c2"


(* ----------------------------- logs: steps ----------------------------- *)

\* the characters of a line: a character of a timestamp, and the space
Chars == {"1", " "}

LogLines == UNION {[1..n -> Chars] : n \in 0..MaxLineLen}

\* paths, as the pieces of their file name: docker-c1.log, docker-.log,
\* c1.log, c1docker-.log, docker-c1 and a path without a file name
LogPaths ==
    {<<"docker-", "c1", ".log">>, <<"docker-", ".log">>, <<"c1", ".log">>,
     <<"c1", "docker-", ".log">>, <<"docker-", "c1">>, <<>>}

None == [some |-> FALSE]

Some(v) == [some |-> TRUE, v |-> v]

\* Path::file_stem: the file name without its extension; none for a path
\* that ends in no file name
file_stem(path) ==
    IF path = <<>> THEN None
    ELSE IF Len(path) > 1 /\ path[Len(path)] = ".log"
    THEN Some(SubSeq(path, 1, Len(path) - 1))
    ELSE Some(path)

\* str::strip_prefix("docker-")
strip_prefix(stem) ==
    IF stem # <<>> /\ Head(stem) = "docker-" THEN Some(Tail(stem)) ELSE None

\* a split at the last space of the line
RECURSIVE rsplitn(_)
rsplitn(line) ==
    IF line = <<>> THEN <<<<>>>>
    ELSE IF line[Len(line)] = " " THEN <<SubSeq(line, 1, Len(line) - 1), <<>>>>
    ELSE LET front == rsplitn(SubSeq(line, 1, Len(line) - 1))
         IN [front EXCEPT ![Len(front)] = Append(@, line[Len(line)])]

\* line.splitn(2, ' '): the line up to its first space and the rest after
\* it, or the line alone when it has no space
RECURSIVE splitn(_)
splitn(line) ==
    IF line = <<>> THEN <<<<>>>>
    ELSE IF Head(line) = " " THEN <<<<>>, Tail(line)>>
    ELSE LET rest == splitn(Tail(line))
         IN [rest EXCEPT ![1] = <<Head(line)>> \o @]

\* DateTime::parse_from_rfc3339(date), then with_timezone(&Utc): the instant
\* a well-formed timestamp stands for (here: its length), none otherwise
parse_from_rfc3339(date) ==
    IF date # <<>> /\ \A k \in DOMAIN date : date[k] = "1"
    THEN Some(Len(date)) ELSE None

\* from_file, lines 313-322: the loop over the lines of the file
RECURSIVE read_lines(_)
read_lines(lines) ==
    IF lines = <<>> THEN Some(<<>>)
    ELSE LET split == splitn(Head(lines))
             rest == read_lines(Tail(lines))
         IN IF Len(split) # 2 THEN rest
            ELSE IF ~parse_from_rfc3339(split[1]).some \/ ~rest.some THEN None
            ELSE Some(<<<<parse_from_rfc3339(split[1]).v, split[2]>>>> \o rest.v)

\* Logs::from_file, lines 308-337
from_file(file) ==
    IF ~file_stem(file.path).some THEN [status |-> "NotFound"]
    ELSE IF ~strip_prefix(file_stem(file.path).v).some THEN [status |-> "InvalidInput"]
    ELSE IF ~file.opens THEN [status |-> "Io"]
    ELSE IF ~read_lines(file.lines).some THEN [status |-> "Panic"]
    ELSE [status |-> "Ok",
          container_name |-> strip_prefix(file_stem(file.path).v).v,
          lines |-> read_lines(file.lines).v]

\* the call Logs::from_file(path)
ParseLogs ==
    /\ logs = NotParsed
    /\ logs' = from_file(logfile)
    /\ UNCHANGED logfile
    /\ UNCHANGED <<svars, rvars, cvars, mvars>>

LogsInit ==
    /\ SchedInit({<<>>})
    /\ RunnerIdle
    /\ CombinationsIdle
    /\ MonitorIdle
    /\ logfile \in [path : LogPaths, opens : BOOLEAN,
                    lines : UNION {[1..n -> LogLines] : n \in 0..MaxFileLines}]
    /\ logs = NotParsed

LogsSpec == LogsInit /\ [][ParseLogs]_vars

\* the places of the spaces of a line
Spaces(line) == {k \in DOMAIN line : line[k] = " "}

FirstSpace(line) == CHOOSE k \in Spaces(line) : \A k2 \in Spaces(line) : k <= k2

\* a line the log collector writes: a timestamp, a space, the text
Layout(line) == Spaces(line) # {} /\ FirstSpace(line) > 1

\* the name under which the log collector writes the file of a container
FileOf(name) == <<"docker-">> \o name \o <<".log">>

\* C40: for a file docker-<name>.log that can be opened and whose lines
\* are either '<timestamp> <text>' or without any space, from_file returns
\* a Logs value with container_name = <name> and with one pair for each
\* line that has a space, in the order of the file: the instant of what
\* stands before the first space of the line, and as text everything
\* behind the first space, later spaces included. A path whose stem does
\* not start with docker- gives InvalidInput, whatever the file holds.
C40_LogsFromFile ==
    logs # NotParsed =>
        /\ \A name \in {<<>>, <<"c1">>} :
              (/\ logfile.path = FileOf(name)
               /\ logfile.opens
               /\ \A k \in DOMAIN logfile.lines :
                     Spaces(logfile.lines[k]) = {} \/ Layout(logfile.lines[k])) =>
                 LET kept == SelectSeq(logfile.lines, Layout) IN
                 /\ logs.status = "Ok"
                 /\ logs.container_name = name
                 /\ Len(logs.lines) = Len(kept)
                 /\ \A k \in DOMAIN kept :
                       /\ logs.lines[k][1] = FirstSpace(kept[k]) - 1
                       /\ logs.lines[k][2]
                             = SubSeq(kept[k], FirstSpace(kept[k]) + 1, Len(kept[k]))
        /\ (logfile.path # <<>> /\ Head(logfile.path) # "docker-") =>
              logs = [status |-> "InvalidInput"]

\* docker-c1.log with a line without a space and then a line whose text
\* is a space
C40_Witness ==
    /\ logfile.path = <<"docker-", "c1", ".log">>
    /\ logfile.lines = <<<<"1", "1">>, <<"1", " ", " ">>>>
    /\ logs = [status |-> "Ok", container_name |-> <<"c1">>,
               lines |-> <<<<1, <<" ">>>>>>]

====
